---------------------------- MODULE Spec2Model ----------------------------
(***************************************************************************)
(* SimpleLockTable (src/src/locktable.rs): a DashMap from keys to RwLatch, *)
(* with try_shared / try_exclusive / try_upgrade / downgrade /             *)
(* release_shared / release_exclusive and check_all_released.              *)
(*                                                                         *)
(* Every public method is broken into its steps: the call, taking the      *)
(* key's slot (DashMap::entry takes the write lock of the key's shard and  *)
(* looks the key up, DashMap::get takes the read lock), the latch          *)
(* operation or the insert, the is_locked test, the removal, and dropping  *)
(* the slot when the method returns.                                       *)
(*                                                                         *)
(* crate::rwlatch::RwLatch is not part of the sources at hand; the latch   *)
(* operators below follow the state table of the specification (4.1).      *)
(***************************************************************************)
EXTENDS Naturals, FiniteSets

\* Number of caller threads.
NumThreads == 2

\* How many shared holds on one key a single caller takes at most.
MaxHold == 1

\* Number of shards of the DashMap; a key's slot is guarded by its shard's lock.
NumShards == 2

\* The largest shared_count callers that call anything drive a latch to.
MaxCount == NumThreads

Threads == 1..NumThreads

\* The keys the callers use.
Keys == {1, 2}

Shards == 0..(NumShards - 1)

NoThread == 0

NoKey == 0

Ops == {"try_shared", "try_exclusive", "try_upgrade", "downgrade",
        "release_shared", "release_exclusive"}

VARIABLES
    hashmap,               \* SimpleLockTable.hashmap: present keys -> latch
    shard,                 \* the shard each key hashes to (fixed per map)
    writer,                \* per shard: the thread holding its write lock
    readers,               \* per shard: the threads holding its read lock
    pc,                    \* per thread: position inside the current method
    op,                    \* per thread: the method being executed
    key,                   \* per thread: its key argument
    ret,                   \* per thread: the boolean the method will return
    held_shared_locks,     \* per thread, per key: shared holds the caller counts
    held_exclusive_locks   \* per thread: keys the caller counts as held exclusively

vars == <<hashmap, shard, writer, readers, pc, op, key, ret,
          held_shared_locks, held_exclusive_locks>>

-----------------------------------------------------------------------------
(* RwLatch: shared_count and exclusive_held, with the transitions of 4.1.  *)

DefaultLatch == [shared_count |-> 0, exclusive_held |-> FALSE]

\* The locked states of the latch: Shared(n) with n >= 1, and Exclusive.
Shared(n) == [shared_count |-> n, exclusive_held |-> FALSE]

Exclusive == [shared_count |-> 0, exclusive_held |-> TRUE]

IsLocked(l) == l.shared_count > 0 \/ l.exclusive_held

\* try_shared: granted unless held exclusively.
LatchTrySharedOk(l) == ~l.exclusive_held

LatchTryShared(l) ==
    IF LatchTrySharedOk(l)
    THEN [l EXCEPT !.shared_count = l.shared_count + 1]
    ELSE l

\* try_exclusive: granted only when unlocked.
LatchTryExclusiveOk(l) == ~IsLocked(l)

LatchTryExclusive(l) ==
    IF LatchTryExclusiveOk(l)
    THEN [l EXCEPT !.exclusive_held = TRUE]
    ELSE l

\* try_upgrade: granted only to the sole shared holder.
LatchTryUpgradeOk(l) == l.shared_count = 1 /\ ~l.exclusive_held

LatchTryUpgrade(l) ==
    IF LatchTryUpgradeOk(l)
    THEN [shared_count |-> 0, exclusive_held |-> TRUE]
    ELSE l

\* downgrade: Exclusive -> Shared(1); any other state is misuse.
LatchDowngradeOk(l) == l.exclusive_held

LatchDowngrade(l) == [shared_count |-> 1, exclusive_held |-> FALSE]

\* release_shared: Shared(n) -> Shared(n-1); any other state is misuse.
LatchReleaseSharedOk(l) == l.shared_count > 0 /\ ~l.exclusive_held

LatchReleaseShared(l) == [l EXCEPT !.shared_count = l.shared_count - 1]

\* release_exclusive: Exclusive -> Unlocked; any other state is misuse.
LatchReleaseExclusiveOk(l) == l.exclusive_held

LatchReleaseExclusive(l) == [l EXCEPT !.exclusive_held = FALSE]

-----------------------------------------------------------------------------
(* The map.                                                                *)

Present(k) == k \in DOMAIN hashmap

\* The shard that holds a key: DashMap hashes the key with the map's own
\* randomly seeded hasher, so which keys share a shard differs from one map
\* to the next and is fixed for the life of the map.  The shards being
\* interchangeable, the shard of key 1 is called 0.
ShardOf(k) == shard[k]

\* entry.insert(lock) / a mutation through entry.get()
MapPut(m, k, l) == [x \in (DOMAIN m) \cup {k} |-> IF x = k THEN l ELSE m[x]]

\* entry.remove()
MapRemove(m, k) == [x \in (DOMAIN m) \ {k} |-> m[x]]

\* check_all_released: self.hashmap.is_empty()
CheckAllReleased == DOMAIN hashmap = {}

\* A faulty map: entry() does not wait for the shard's lock.
SlotFree_Unlocked(k) == TRUE

SlotFree(k) == writer[ShardOf(k)] = NoThread /\ readers[ShardOf(k)] = {}

Init ==
    /\ hashmap = [x \in {} |-> DefaultLatch]
    /\ shard \in {f \in [Keys -> Shards] : f[1] = 0}
    /\ writer = [s \in Shards |-> NoThread]
    /\ readers = [s \in Shards |-> {}]
    /\ pc = [t \in Threads |-> "idle"]
    /\ op = [t \in Threads |-> "none"]
    /\ key = [t \in Threads |-> NoKey]
    /\ ret = [t \in Threads |-> FALSE]
    /\ held_shared_locks = [t \in Threads |-> [k \in Keys |-> 0]]
    /\ held_exclusive_locks = [t \in Threads |-> {}]


-----------------------------------------------------------------------------
(* The callers.  A caller keeps count of what it holds, as the threads of  *)
(* stress_test_lock_table_with_state do, and the count is brought up to    *)
(* date when a method returns.                                             *)

\* A caller that keeps to its own holds: it releases, upgrades and
\* downgrades only what it holds; the try-acquisitions are always allowed.
Permitted(t, o, k) ==
    CASE o = "try_shared" -> held_shared_locks[t][k] < MaxHold
      [] o = "try_exclusive" -> TRUE
      [] o = "try_upgrade" -> held_shared_locks[t][k] > 0
      [] o = "downgrade" -> k \in held_exclusive_locks[t]
      [] o = "release_shared" -> held_shared_locks[t][k] > 0
      [] o = "release_exclusive" -> k \in held_exclusive_locks[t]

\* A caller that calls anything on any key, its own holds or not, and keeps
\* no count; only the growth of shared_count is capped.
Unrestricted(t, o, k) ==
    (o = "try_shared" /\ Present(k)) => hashmap[k].shared_count < MaxCount

\* The caller's count of shared holds on the key after the method returned.
SharedAfter(t) ==
    LET n == held_shared_locks[t][key[t]] IN
    CASE op[t] = "try_shared" /\ ret[t] -> n + 1
      [] op[t] = "try_upgrade" /\ ret[t] -> n - 1
      [] op[t] = "downgrade" -> n + 1
      [] op[t] = "release_shared" -> n - 1
      [] OTHER -> n

\* The keys the caller counts as held exclusively after the method returned.
ExclusiveAfter(t) ==
    CASE op[t] \in {"try_exclusive", "try_upgrade"} /\ ret[t] ->
             held_exclusive_locks[t] \cup {key[t]}
      [] op[t] \in {"downgrade", "release_exclusive"} ->
             held_exclusive_locks[t] \ {key[t]}
      [] OTHER -> held_exclusive_locks[t]

\* The method returns: the caller is idle again.
Returned(t) ==
    /\ pc' = [pc EXCEPT ![t] = "idle"]
    /\ op' = [op EXCEPT ![t] = "none"]
    /\ key' = [key EXCEPT ![t] = NoKey]
    /\ ret' = [ret EXCEPT ![t] = FALSE]
    /\ UNCHANGED shard

\* The caller records the outcome of the method in its counts.
Record(t) ==
    /\ held_shared_locks' =
           [held_shared_locks EXCEPT ![t][key[t]] = SharedAfter(t)]
    /\ held_exclusive_locks' =
           [held_exclusive_locks EXCEPT ![t] = ExclusiveAfter(t)]

\* The caller keeps no count.
NoRecord(t) == UNCHANGED <<held_shared_locks, held_exclusive_locks>>

\* The shard locks once thread t has let go of the key's slot.
WriterFreed(t) ==
    [s \in Shards |-> IF writer[s] = t THEN NoThread ELSE writer[s]]

ReadersFreed(t) == [s \in Shards |-> readers[s] \ {t}]

\* A panic: the thread unwinds, its guard is dropped, nothing else changes.
Panic(t) ==
    /\ pc' = [pc EXCEPT ![t] = "fault"]
    /\ writer' = WriterFreed(t)
    /\ readers' = ReadersFreed(t)
    /\ UNCHANGED <<hashmap, shard, op, key, ret,
                   held_shared_locks, held_exclusive_locks>>

-----------------------------------------------------------------------------
(* Calling a method and taking the slot.  A caller that has called and     *)
(* waits for the shard's lock has changed nothing yet, so the call and the *)
(* acquisition of the lock are one step, enabled when the lock is free.    *)

Invoke(t, o, k) ==
    /\ pc[t] = "idle"
    /\ op' = [op EXCEPT ![t] = o]
    /\ key' = [key EXCEPT ![t] = k]
    /\ UNCHANGED <<hashmap, shard, ret, held_shared_locks, held_exclusive_locks>>

\* A faulty entry(): one lock guards the whole map, so the call waits for
\* every shard to be free and takes them all.
TakeEntry_LockingAll(t, o, k) ==
    /\ o # "downgrade"
    /\ \A s \in Shards : writer[s] = NoThread /\ readers[s] = {}
    /\ Invoke(t, o, k)
    /\ writer' = [s \in Shards |-> t]
    /\ pc' = [pc EXCEPT ![t] = IF Present(k) THEN "occupied" ELSE "vacant"]
    /\ UNCHANGED readers

\* A faulty entry(): it looks the key up without taking the shard's lock
\* first, whoever holds it.
TakeEntry_NoExclusion(t, o, k) ==
    /\ o # "downgrade"
    /\ Invoke(t, o, k)
    /\ writer' = [writer EXCEPT ![ShardOf(k)] = t]
    /\ pc' = [pc EXCEPT ![t] = IF Present(k) THEN "occupied" ELSE "vacant"]
    /\ UNCHANGED readers

\* self.hashmap.entry(key): takes the shard's write lock, then looks up.
TakeEntry(t, o, k) ==
    /\ o # "downgrade"
    /\ SlotFree(k)
    /\ Invoke(t, o, k)
    /\ writer' = [writer EXCEPT ![ShardOf(k)] = t]
    /\ pc' = [pc EXCEPT ![t] = IF Present(k) THEN "occupied" ELSE "vacant"]
    /\ UNCHANGED readers

\* self.hashmap.get(key) finding the key: a Ref holding the shard's read lock.
GetRef(t, o, k) ==
    /\ o = "downgrade"
    /\ writer[ShardOf(k)] = NoThread
    /\ Present(k)
    /\ Invoke(t, o, k)
    /\ readers' = [readers EXCEPT ![ShardOf(k)] = @ \cup {t}]
    /\ pc' = [pc EXCEPT ![t] = "ref"]
    /\ UNCHANGED writer

\* self.hashmap.get(key) finding nothing: unwrap() panics, no lock is kept.
GetNone(t, o, k) ==
    /\ o = "downgrade"
    /\ writer[ShardOf(k)] = NoThread
    /\ ~Present(k)
    /\ Invoke(t, o, k)
    /\ pc' = [pc EXCEPT ![t] = "fault"]
    /\ UNCHANGED <<writer, readers>>

Call(t) ==
    \E o \in Ops, k \in Keys :
        /\ Permitted(t, o, k)
        /\ \/ TakeEntry(t, o, k)
           \/ GetRef(t, o, k)

CallAny(t) ==
    \E o \in Ops, k \in Keys :
        /\ Unrestricted(t, o, k)
        /\ \/ TakeEntry(t, o, k)
           \/ GetRef(t, o, k)
           \/ GetNone(t, o, k)

-----------------------------------------------------------------------------
(* The bodies of the methods, the slot being held.                         *)

\* A step that leaves the slot held and goes on to position p with result r.
Step(t, m, p, r) ==
    /\ hashmap' = m
    /\ pc' = [pc EXCEPT ![t] = p]
    /\ ret' = [ret EXCEPT ![t] = r]
    /\ UNCHANGED <<shard, writer, readers, op, key,
                   held_shared_locks, held_exclusive_locks>>

\* A faulty try_shared: the occupied branch inserts a fresh latch as the
\* vacant branch does.
TrySharedOccupied_Overwriting(t) ==
    /\ pc[t] = "occupied"
    /\ op[t] = "try_shared"
    /\ Step(t, MapPut(hashmap, key[t], LatchTryShared(DefaultLatch)), "drop", TRUE)

\* A faulty try_shared: the occupied branch counts the caller as a shared
\* holder even when it refuses.
TrySharedOccupied_CountingRefused(t) ==
    /\ pc[t] = "occupied"
    /\ op[t] = "try_shared"
    /\ LET lock == hashmap[key[t]] IN
       Step(t, MapPut(hashmap, key[t],
                      [lock EXCEPT !.shared_count = lock.shared_count + 1]),
            "drop", LatchTrySharedOk(lock))

TrySharedOccupied(t) ==
    /\ pc[t] = "occupied"
    /\ op[t] = "try_shared"
    /\ LET lock == hashmap[key[t]] IN
       Step(t, MapPut(hashmap, key[t], LatchTryShared(lock)), "drop",
            LatchTrySharedOk(lock))

\* A faulty try_shared: the vacant branch reports success and forgets
\* entry.insert(lock).
TrySharedVacant_NotInserting(t) ==
    /\ pc[t] = "vacant"
    /\ op[t] = "try_shared"
    /\ Step(t, hashmap, "drop", TRUE)

TrySharedVacant(t) ==
    /\ pc[t] = "vacant"
    /\ op[t] = "try_shared"
    /\ LatchTrySharedOk(DefaultLatch)
    /\ Step(t, MapPut(hashmap, key[t], LatchTryShared(DefaultLatch)), "drop", TRUE)

\* A faulty try_exclusive: the occupied branch waits, the slot held, until
\* the latch can be taken.
TryExclusiveOccupied_Waiting(t) ==
    /\ pc[t] = "occupied"
    /\ op[t] = "try_exclusive"
    /\ LatchTryExclusiveOk(hashmap[key[t]])
    /\ Step(t, MapPut(hashmap, key[t], LatchTryExclusive(hashmap[key[t]])),
            "drop", TRUE)

\* A faulty try_exclusive: the occupied branch grants the lock whenever the
\* key is not held exclusively, shared holders or not.
TryExclusiveOccupied_IgnoringShared(t) ==
    /\ pc[t] = "occupied"
    /\ op[t] = "try_exclusive"
    /\ LET lock == hashmap[key[t]] IN
       Step(t, MapPut(hashmap, key[t], [lock EXCEPT !.exclusive_held = TRUE]),
            "drop", ~lock.exclusive_held)

TryExclusiveOccupied(t) ==
    /\ pc[t] = "occupied"
    /\ op[t] = "try_exclusive"
    /\ LET lock == hashmap[key[t]] IN
       Step(t, MapPut(hashmap, key[t], LatchTryExclusive(lock)), "drop",
            LatchTryExclusiveOk(lock))

\* A faulty try_exclusive: the vacant branch refuses as try_upgrade's does.
TryExclusiveVacant_Refusing(t) ==
    /\ pc[t] = "vacant"
    /\ op[t] = "try_exclusive"
    /\ Step(t, hashmap, "drop", FALSE)

TryExclusiveVacant(t) ==
    /\ pc[t] = "vacant"
    /\ op[t] = "try_exclusive"
    /\ LatchTryExclusiveOk(DefaultLatch)
    /\ Step(t, MapPut(hashmap, key[t], LatchTryExclusive(DefaultLatch)), "drop", TRUE)

\* A faulty try_upgrade: granted to any shared holder, sole or not.
TryUpgradeOccupied_AnyShared(t) ==
    /\ pc[t] = "occupied"
    /\ op[t] = "try_upgrade"
    /\ LET lock == hashmap[key[t]] IN
       Step(t, MapPut(hashmap, key[t],
                      IF lock.exclusive_held THEN lock ELSE Exclusive),
            "drop", ~lock.exclusive_held)

TryUpgradeOccupied(t) ==
    /\ pc[t] = "occupied"
    /\ op[t] = "try_upgrade"
    /\ LET lock == hashmap[key[t]] IN
       Step(t, MapPut(hashmap, key[t], LatchTryUpgrade(lock)), "drop",
            LatchTryUpgradeOk(lock))

\* A faulty try_upgrade: the vacant branch leaves a fresh latch in the map.
TryUpgradeVacant_Inserting(t) ==
    /\ pc[t] = "vacant"
    /\ op[t] = "try_upgrade"
    /\ Step(t, MapPut(hashmap, key[t], DefaultLatch), "drop", FALSE)

TryUpgradeVacant(t) ==
    /\ pc[t] = "vacant"
    /\ op[t] = "try_upgrade"
    /\ Step(t, hashmap, "drop", FALSE)

\* A faulty downgrade: the latch is looked up and left as it is.
Downgrade_LeavingLatch(t) ==
    /\ pc[t] = "ref"
    /\ Present(key[t])
    /\ LatchDowngradeOk(hashmap[key[t]])
    /\ Step(t, hashmap, "drop", FALSE)

Downgrade(t) ==
    /\ pc[t] = "ref"
    /\ Present(key[t])
    /\ LatchDowngradeOk(hashmap[key[t]])
    /\ Step(t, MapPut(hashmap, key[t], LatchDowngrade(hashmap[key[t]])), "drop", FALSE)

\* A faulty release_shared: the entry is removed without the is_locked test.
ReleaseSharedOccupied_AlwaysRemoving(t) ==
    /\ pc[t] = "occupied"
    /\ op[t] = "release_shared"
    /\ LatchReleaseSharedOk(hashmap[key[t]])
    /\ Step(t, MapPut(hashmap, key[t], LatchReleaseShared(hashmap[key[t]])),
            "remove", FALSE)

\* A faulty release_shared: it calls the latch's release_exclusive.
ReleaseSharedOccupied_ReleasingExclusive(t) ==
    /\ pc[t] = "occupied"
    /\ op[t] = "release_shared"
    /\ Step(t, MapPut(hashmap, key[t], LatchReleaseExclusive(hashmap[key[t]])),
            "check", FALSE)

\* A faulty release_shared: the slot is let go between the release of the
\* latch and the is_locked test.
ReleaseSharedOccupied_DroppingSlot(t) ==
    /\ pc[t] = "occupied"
    /\ op[t] = "release_shared"
    /\ LatchReleaseSharedOk(hashmap[key[t]])
    /\ hashmap' = MapPut(hashmap, key[t], LatchReleaseShared(hashmap[key[t]]))
    /\ pc' = [pc EXCEPT ![t] = "check"]
    /\ writer' = WriterFreed(t)
    /\ UNCHANGED <<shard, readers, op, key, ret,
                   held_shared_locks, held_exclusive_locks>>

ReleaseSharedOccupied(t) ==
    /\ pc[t] = "occupied"
    /\ op[t] = "release_shared"
    /\ LatchReleaseSharedOk(hashmap[key[t]])
    /\ Step(t, MapPut(hashmap, key[t], LatchReleaseShared(hashmap[key[t]])),
            "check", FALSE)

\* A faulty release_exclusive: the latch is released and the entry is kept.
ReleaseExclusiveOccupied_NoCleanup(t) ==
    /\ pc[t] = "occupied"
    /\ op[t] = "release_exclusive"
    /\ LatchReleaseExclusiveOk(hashmap[key[t]])
    /\ Step(t, MapPut(hashmap, key[t], LatchReleaseExclusive(hashmap[key[t]])),
            "drop", FALSE)

ReleaseExclusiveOccupied(t) ==
    /\ pc[t] = "occupied"
    /\ op[t] = "release_exclusive"
    /\ LatchReleaseExclusiveOk(hashmap[key[t]])
    /\ Step(t, MapPut(hashmap, key[t], LatchReleaseExclusive(hashmap[key[t]])),
            "check", FALSE)

\* A faulty release: the is_locked test is inverted, so a latch still held
\* is removed and an unlocked one is kept.
IsLockedCheck_Inverted(t) ==
    /\ pc[t] = "check"
    /\ Step(t, hashmap, IF IsLocked(hashmap[key[t]]) THEN "remove" ELSE "drop", FALSE)

\* A faulty release: the is_locked test never leads to the removal.
IsLockedCheck_NeverRemoving(t) ==
    /\ pc[t] = "check"
    /\ Step(t, hashmap, "drop", FALSE)

\* if !lock.is_locked() { entry.remove(); }
IsLockedCheck(t) ==
    /\ pc[t] = "check"
    /\ Step(t, hashmap, IF IsLocked(hashmap[key[t]]) THEN "drop" ELSE "remove", FALSE)

\* A faulty removal: the guard is dropped and the entry stays.
RemoveEntry_KeepingEntry(t) ==
    /\ pc[t] = "remove"
    /\ UNCHANGED hashmap
    /\ writer' = WriterFreed(t)
    /\ UNCHANGED readers
    /\ Returned(t)

\* entry.remove(): the entry goes, the guard with it, and the method returns.
RemoveEntry(t) ==
    /\ pc[t] = "remove"
    /\ hashmap' = MapRemove(hashmap, key[t])
    /\ writer' = WriterFreed(t)
    /\ UNCHANGED readers
    /\ Returned(t)

\* The entry or the Ref goes out of scope and the method returns.
DropGuard(t) ==
    /\ pc[t] = "drop"
    /\ writer' = WriterFreed(t)
    /\ readers' = ReadersFreed(t)
    /\ UNCHANGED hashmap
    /\ Returned(t)

Remove(t) == RemoveEntry(t) /\ Record(t)

Drop(t) == DropGuard(t) /\ Record(t)

RemoveAny(t) == RemoveEntry(t) /\ NoRecord(t)

DropAny(t) == DropGuard(t) /\ NoRecord(t)

-----------------------------------------------------------------------------
(* Misuse.                                                                 *)

\* Vacant(_) => panic!("Lock not found") in release_shared / release_exclusive.
MisuseAbsent(t) ==
    /\ pc[t] = "vacant"
    /\ op[t] \in {"release_shared", "release_exclusive"}

\* A faulty release: the vacant branch returns as if the lock were released.
ReleaseVacant_Silent(t) ==
    /\ MisuseAbsent(t)
    /\ Step(t, hashmap, "drop", FALSE)

ReleaseVacant(t) == MisuseAbsent(t) /\ Panic(t)

\* A release or a downgrade reaching a latch that is not in the mode it needs.
MisuseLatch(t) ==
    \/ /\ pc[t] = "occupied"
       /\ op[t] = "release_shared"
       /\ ~LatchReleaseSharedOk(hashmap[key[t]])
    \/ /\ pc[t] = "occupied"
       /\ op[t] = "release_exclusive"
       /\ ~LatchReleaseExclusiveOk(hashmap[key[t]])
    \/ /\ pc[t] = "ref"
       /\ ~(Present(key[t]) /\ LatchDowngradeOk(hashmap[key[t]]))

LatchPanic(t) == MisuseLatch(t) /\ Panic(t)

-----------------------------------------------------------------------------

\* Callers that keep to their own holds.
Next ==
    \E t \in Threads :
        \/ Call(t)
        \/ TrySharedOccupied(t)
        \/ TrySharedVacant(t)
        \/ TryExclusiveOccupied(t)
        \/ TryExclusiveVacant(t)
        \/ TryUpgradeOccupied(t)
        \/ Downgrade(t)
        \/ ReleaseSharedOccupied(t)
        \/ ReleaseExclusiveOccupied(t)
        \/ IsLockedCheck(t)
        \/ Remove(t)
        \/ Drop(t)

Spec == Init /\ [][Next]_vars

\* Callers that call anything, misuse included.
NextAny ==
    \E t \in Threads :
        \/ CallAny(t)
        \/ TrySharedOccupied(t)
        \/ TrySharedVacant(t)
        \/ TryExclusiveOccupied(t)
        \/ TryExclusiveVacant(t)
        \/ TryUpgradeOccupied(t)
        \/ TryUpgradeVacant(t)
        \/ Downgrade(t)
        \/ ReleaseSharedOccupied(t)
        \/ ReleaseExclusiveOccupied(t)
        \/ IsLockedCheck(t)
        \/ RemoveAny(t)
        \/ DropAny(t)
        \/ ReleaseVacant(t)
        \/ LatchPanic(t)

SpecAny == Init /\ [][NextAny]_vars

-----------------------------------------------------------------------------
(* What the callers hold, by their own counts.                             *)

HoldsShared(t, k) == held_shared_locks[t][k] > 0

HoldsExclusive(t, k) == k \in held_exclusive_locks[t]

Holds(t, k) == HoldsShared(t, k) \/ HoldsExclusive(t, k)

\* No method is in progress on key k: its slot is held for no call on k.
Quiet(k) == \A t \in Threads : pc[t] \in {"idle", "fault"} \/ key[t] # k

\* Thread t has carried out the latch operation of method o and is about to
\* let go of the slot and return ret[t].
Returning(t, o) == pc[t] = "drop" /\ op[t] = o

RECURSIVE SharedHeldUpTo(_, _, _)
SharedHeldUpTo(h, n, k) ==
    IF n = 0 THEN 0 ELSE h[n][k] + SharedHeldUpTo(h, n - 1, k)

\* The shared holds on key k that the callers count between them, in counts h.
SharedHeldIn(h, k) == SharedHeldUpTo(h, NumThreads, k)

SharedHeld(k) == SharedHeldIn(held_shared_locks, k)

\* Thread t takes a step of its method in this transition.
Acts(t) == pc'[t] # pc[t]

\* The entries of the keys other than k are the same in maps m1 and m2.
SameElsewhere(m1, m2, k) ==
    /\ (DOMAIN m1) \ {k} = (DOMAIN m2) \ {k}
    /\ \A x \in (DOMAIN m1) \ {k} : m1[x] = m2[x]

-----------------------------------------------------------------------------
\* C1: in every reachable state no latch of the table has exclusive_held
\* together with shared_count > 0; every entry is Unlocked, Shared(n) or
\* Exclusive, whatever the interleaving of the six operations by callers
\* that keep to their own holds.
C1_MutualExclusion ==
    \A k \in DOMAIN hashmap :
        /\ ~(hashmap[k].exclusive_held /\ hashmap[k].shared_count > 0)
        /\ \/ hashmap[k] = DefaultLatch
           \/ \E n \in 1..(NumThreads * MaxHold) : hashmap[k] = Shared(n)
           \/ hashmap[k] = Exclusive

\* One key is held exclusively after an upgrade or a try_exclusive while the
\* other is shared by two holders.
C1_Witness ==
    \E k1, k2 \in DOMAIN hashmap :
        /\ hashmap[k1] = Exclusive
        /\ hashmap[k2] = Shared(2)
        /\ \E t \in Threads : Returning(t, "try_upgrade") /\ key[t] = k1 /\ ret[t]

\* C2: whenever no call on a key is in progress, an entry of the key is
\* never unlocked, and the key has an entry if and only if some caller
\* holds it: no public operation leaves an unlocked latch in the map.
C2_EntryIffLocked ==
    \A k \in Keys :
        Quiet(k) =>
            /\ Present(k) => IsLocked(hashmap[k])
            /\ Present(k) <=> \E t \in Threads : Holds(t, k)

\* A release has just unlocked a latch and is about to remove it, while the
\* other key, in the same shard and with no call in progress, stays in the
\* map locked.
C2_Witness ==
    \E t \in Threads, k \in Keys :
        /\ pc[t] = "remove"
        /\ Present(key[t])
        /\ ~IsLocked(hashmap[key[t]])
        /\ k # key[t]
        /\ ShardOf(k) = ShardOf(key[t])
        /\ Quiet(k)
        /\ Present(k)

\* C3: while a caller holds a key exclusively, every try_shared and
\* try_exclusive of another caller on that key returns false; and a
\* try_shared on a key that no caller holds exclusively returns true.
C3_ExclusiveExcludes ==
    \A t \in Threads :
        /\ (Returning(t, "try_shared") \/ Returning(t, "try_exclusive"))
           /\ (\E u \in Threads \ {t} : HoldsExclusive(u, key[t]))
           => ~ret[t]
        /\ Returning(t, "try_shared")
           /\ (\A u \in Threads : ~HoldsExclusive(u, key[t]))
           => ret[t]

\* A try_shared is refused while another caller holds the key exclusively.
C3_Witness ==
    \E t \in Threads, u \in Threads :
        /\ u # t
        /\ Returning(t, "try_shared")
        /\ ~ret[t]
        /\ HoldsExclusive(u, key[t])

\* C4: try_shared on a key that is not held exclusively returns true; when
\* every caller holds one shared lock on a key and no call on it is in
\* progress, the key has one entry with shared_count = NumThreads; and a
\* release_shared of a shared holder finds the entry, in shared mode.
C4_SharedConcurrency ==
    /\ \A t \in Threads :
           Returning(t, "try_shared")
           /\ (Present(key[t]) => ~hashmap[key[t]].exclusive_held)
           => ret[t] /\ Present(key[t])
    /\ \A k \in Keys :
           Quiet(k) /\ (\A t \in Threads : held_shared_locks[t][k] = 1)
           => Present(k) /\ hashmap[k] = Shared(NumThreads)
    /\ \A t \in Threads :
           op[t] = "release_shared" /\ pc[t] \in {"occupied", "vacant"}
           => /\ pc[t] = "occupied"
              /\ Present(key[t])
              /\ LatchReleaseSharedOk(hashmap[key[t]])

\* Every caller has taken the key shared, and the first of the releases is
\* under way.
C4_Witness ==
    \E t \in Threads :
        /\ pc[t] = "occupied"
        /\ op[t] = "release_shared"
        /\ Present(key[t])
        /\ hashmap[key[t]] = Shared(NumThreads)
        /\ \A u \in Threads : held_shared_locks[u][key[t]] = 1

\* C5: try_upgrade on a key that has an entry returns true if and only if
\* the latch is Shared(1) when the call takes effect; on success the latch
\* becomes Exclusive in one step, the entry never leaving the map; otherwise
\* (shared_count > 1 or held exclusively) it returns false and the table is
\* unchanged.
C5_UpgradeSoundness ==
    [][\A t \in Threads :
          (pc[t] = "occupied" /\ op[t] = "try_upgrade" /\ Acts(t)) =>
              /\ pc'[t] = "drop"
              /\ Present(key[t])
              /\ key[t] \in DOMAIN hashmap'
              /\ SameElsewhere(hashmap, hashmap', key[t])
              /\ IF hashmap[key[t]] = Shared(1)
                 THEN ret'[t] /\ hashmap'[key[t]] = Exclusive
                 ELSE ~ret'[t] /\ hashmap' = hashmap]_vars

\* An upgrade has succeeded: the latch is Exclusive and the entry is there.
C5_Witness ==
    \E t \in Threads :
        /\ Returning(t, "try_upgrade")
        /\ ret[t]
        /\ Present(key[t])
        /\ hashmap[key[t]] = Exclusive

\* C6: try_upgrade on a key with no entry returns false and does not fault;
\* no entry is created, the table and the value of check_all_released are
\* the same before and after every step of the call.
C6_UpgradeAbsent ==
    [][\A t \in Threads :
          (op[t] = "try_upgrade" /\ pc[t] \in {"vacant", "drop"}
              /\ ~Present(key[t]) /\ Acts(t)) =>
              /\ pc'[t] = (IF pc[t] = "vacant" THEN "drop" ELSE "idle")
              /\ pc[t] = "vacant" => ~ret'[t]
              /\ pc[t] = "drop" => ~ret[t]
              /\ hashmap' = hashmap
              /\ CheckAllReleased' = CheckAllReleased]_vars

\* A try_upgrade on an absent key is about to return false.
C6_Witness ==
    \E t \in Threads :
        /\ Returning(t, "try_upgrade")
        /\ ~Present(key[t])
        /\ ~ret[t]

\* C7: after downgrade the entry is present and Shared(1); a try_shared
\* that finds one shared hold outstanding returns true and makes
\* shared_count 2; a try_exclusive on a key with a shared hold outstanding
\* returns false.
C7_Downgrade ==
    \A t \in Threads :
        /\ Returning(t, "downgrade")
           => Present(key[t]) /\ hashmap[key[t]] = Shared(1)
        /\ Returning(t, "try_shared") /\ SharedHeld(key[t]) = 1
           => ret[t] /\ Present(key[t]) /\ hashmap[key[t]] = Shared(2)
        /\ Returning(t, "try_exclusive") /\ SharedHeld(key[t]) >= 1
           => ~ret[t]

\* A downgrade has taken effect on a key its caller holds exclusively.
C7_Witness ==
    \E t \in Threads :
        /\ Returning(t, "downgrade")
        /\ HoldsExclusive(t, key[t])
        /\ hashmap[key[t]] = Shared(1)

\* C8: a key that no caller holds, no call on it in progress, has no entry,
\* so that
\* check_all_released() is true once everything is released; and a
\* try_shared or try_exclusive on a key that no caller holds returns true.
C8_Cleanup ==
    /\ \A k \in Keys :
           Quiet(k) /\ (\A t \in Threads : ~Holds(t, k)) => ~Present(k)
    /\ (\A t \in Threads : pc[t] = "idle" /\ \A k \in Keys : ~Holds(t, k))
       => CheckAllReleased
    /\ \A t \in Threads :
           (Returning(t, "try_shared") \/ Returning(t, "try_exclusive"))
           /\ (\A u \in Threads : ~Holds(u, key[t]))
           => ret[t]

\* The last outstanding hold, an exclusive one, is being released: its entry
\* is unlocked and about to be removed, which empties the table.
C8_Witness ==
    \E t \in Threads :
        /\ pc[t] = "remove"
        /\ op[t] = "release_exclusive"
        /\ DOMAIN hashmap = {key[t]}
        /\ \A u \in Threads \ {t} : pc[u] = "idle"
        /\ \A u \in Threads, k \in Keys : Holds(u, k) => (u = t /\ k = key[t])

\* C9: try_shared on a key with no entry returns true and creates the entry
\* Shared(1), the other entries untouched; and when a release_shared
\* returns, the other entries are untouched and the key has no entry if no
\* shared hold on it remains, so that the pair leaves the table as it was.
C9_RoundTrip ==
    [][\A t \in Threads :
          /\ (pc[t] = "vacant" /\ op[t] = "try_shared" /\ Acts(t)) =>
                 /\ ret'[t]
                 /\ hashmap' = MapPut(hashmap, key[t], Shared(1))
          /\ (op[t] = "release_shared" /\ pc[t] \in {"remove", "drop"}
                 /\ Acts(t)) =>
                 /\ pc'[t] = "idle"
                 /\ SameElsewhere(hashmap, hashmap', key[t])
                 /\ (key[t] \in DOMAIN hashmap') <=>
                        (SharedHeldIn(held_shared_locks', key[t]) > 0)
                 /\ (key[t] \in DOMAIN hashmap') =>
                        hashmap'[key[t]] =
                            Shared(SharedHeldIn(held_shared_locks', key[t]))]_vars

\* The release_shared of a pair is about to remove the only entry of the
\* table, the only hold there is.
C9_Witness ==
    \E t \in Threads :
        /\ pc[t] = "remove"
        /\ op[t] = "release_shared"
        /\ DOMAIN hashmap = {key[t]}
        /\ \A u \in Threads \ {t} : pc[u] = "idle"
        /\ \A u \in Threads, k \in Keys : Holds(u, k) => (u = t /\ k = key[t])

\* C10: try_exclusive returns true if and only if the key has no entry when
\* the call takes effect, which is if and only if no caller holds the key;
\* refused, it changes nothing; granted, it creates the entry Exclusive.
C10_ExclusiveIffAbsent ==
    [][\A t \in Threads :
          (op[t] = "try_exclusive" /\ pc[t] \in {"occupied", "vacant"}
              /\ Acts(t)) =>
              /\ pc'[t] = "drop"
              /\ ret'[t] <=> ~Present(key[t])
              /\ ret'[t] <=> (\A u \in Threads : ~Holds(u, key[t]))
              /\ ~ret'[t] => hashmap' = hashmap
              /\ ret'[t] => hashmap' = MapPut(hashmap, key[t], Exclusive)]_vars

\* A try_exclusive is refused while shared holders have not released.
C10_Witness ==
    \E t \in Threads :
        /\ Returning(t, "try_exclusive")
        /\ ~ret[t]
        /\ SharedHeld(key[t]) >= 1
        /\ Present(key[t])
        /\ hashmap[key[t]].shared_count >= 1

-----------------------------------------------------------------------------
\* The threads have released all they acquired and no call is in progress.
AllReleased ==
    \A t \in Threads :
        /\ pc[t] = "idle"
        /\ \A k \in Keys : ~Holds(t, k)

\* C11: under every interleaving of the operations by callers that keep to
\* their own holds, no call reaches a panic (no release finds its key
\* absent, no release or downgrade finds the latch in the wrong mode, no
\* try_upgrade of a holder finds its key absent), and once every thread has
\* released all it acquired, check_all_released() is true.
C11_StressProperty ==
    /\ \A t \in Threads :
           /\ ~MisuseAbsent(t)
           /\ ~MisuseLatch(t)
           /\ pc[t] # "fault"
           /\ pc[t] = "vacant" => op[t] \in {"try_shared", "try_exclusive"}
    /\ AllReleased => CheckAllReleased

\* Two calls are in progress at once, on keys of different shards: the last
\* release of one key is about to remove its entry while the sole holder
\* of the other key upgrades.
C11_Witness ==
    \E t \in Threads, u \in Threads :
        /\ pc[t] = "remove"
        /\ pc[u] = "occupied"
        /\ op[u] = "try_upgrade"
        /\ hashmap[key[u]] = Shared(1)

\* C12: release_shared, release_exclusive and downgrade on a key that has no
\* entry each end in a panic and leave the map as it was: the releases find
\* the entry vacant and panic, downgrade panics on the failed lookup.
C12_AbsentKeyFaults ==
    [][\A t \in Threads :
          /\ pc[t] = "vacant" => ~Present(key[t])
          /\ (pc[t] = "idle" /\ Acts(t) /\ ~Present(key'[t])) =>
                 /\ hashmap' = hashmap
                 /\ pc'[t] = IF op'[t] = "downgrade" THEN "fault" ELSE "vacant"
          /\ (MisuseAbsent(t) /\ Acts(t)) =>
                 /\ pc'[t] = "fault"
                 /\ hashmap' = hashmap]_vars

\* One thread has panicked in a release and the other in a downgrade, both on
\* keys without an entry, and the map is still empty.
C12_Witness ==
    \E t \in Threads, u \in Threads :
        /\ pc[t] = "fault"
        /\ op[t] \in {"release_shared", "release_exclusive"}
        /\ pc[u] = "fault"
        /\ op[u] = "downgrade"
        /\ hashmap = [x \in {} |-> DefaultLatch]

\* The try-acquisitions, which report a conflict as false.
TryOps == {"try_shared", "try_exclusive", "try_upgrade"}

\* C13: a refused try_shared, try_exclusive or try_upgrade changes nothing:
\* the step that decides false leaves the whole map as it was (the key's
\* latch, its presence, the other keys), so does the return, and the call
\* ends by returning false, never in a panic.
C13_RefusalChangesNothing ==
    [][\A t \in Threads :
          /\ (pc[t] \in {"occupied", "vacant"} /\ op[t] \in TryOps /\ Acts(t)) =>
                 /\ pc'[t] = "drop"
                 /\ ~ret'[t] => hashmap' = hashmap
          /\ (pc[t] = "drop" /\ op[t] \in TryOps /\ ~ret[t] /\ Acts(t)) =>
                 /\ pc'[t] = "idle"
                 /\ hashmap' = hashmap]_vars

\* Two refusals side by side: a try_exclusive refused on a key held
\* exclusively, and a try_upgrade refused on a key with two shared holders.
C13_Witness ==
    \E t \in Threads, u \in Threads :
        /\ Returning(t, "try_exclusive")
        /\ ~ret[t]
        /\ Present(key[t])
        /\ hashmap[key[t]] = Exclusive
        /\ Returning(u, "try_upgrade")
        /\ ~ret[u]
        /\ Present(key[u])
        /\ hashmap[key[u]] = Shared(2)

\* Thread t is inside an entry() of key k: between the lookup and the return.
InEntry(t, k) ==
    /\ key[t] = k
    /\ \/ pc[t] \in {"vacant", "occupied", "check", "remove"}
       \/ pc[t] = "drop" /\ op[t] # "downgrade"

\* Thread t has won key k exclusively: its successful try_exclusive or
\* try_upgrade is returning, or it counts the key among its exclusive holds.
WonExclusive(t, k) ==
    \/ HoldsExclusive(t, k)
    \/ /\ pc[t] = "drop"
       /\ key[t] = k
       /\ op[t] \in {"try_exclusive", "try_upgrade"}
       /\ ret[t]

\* C14: first acquisitions of an absent key that run at the same time are
\* taken one after the other: at most one call is inside the key's entry, a
\* vacant entry is seen only while the key is absent, so the second caller
\* finds the latch the first one inserted and no second latch replaces it;
\* at most one caller wins the key exclusively; and when no call on the key
\* is in progress the entry shows exactly the calls that returned true:
\* Exclusive for the one exclusive winner, else Shared(n) for n shared holds,
\* and no entry when nothing is held.
C14_FirstAcquisitionAtomic ==
    \A k \in Keys :
        /\ Cardinality({t \in Threads : InEntry(t, k)}) <= 1
        /\ \A t \in Threads : pc[t] = "vacant" /\ key[t] = k => ~Present(k)
        /\ Cardinality({t \in Threads : WonExclusive(t, k)}) <= 1
        /\ \A t \in Threads :
               Returning(t, "try_exclusive") /\ key[t] = k /\ ret[t]
               => Present(k) /\ hashmap[k] = Exclusive
        /\ Quiet(k) =>
               IF \E t \in Threads : HoldsExclusive(t, k)
               THEN Present(k) /\ hashmap[k] = Exclusive
               ELSE IF SharedHeld(k) > 0
               THEN Present(k) /\ hashmap[k] = Shared(SharedHeld(k))
               ELSE ~Present(k)

\* Two try_exclusive calls on a key that was absent: the first has found the
\* entry vacant and has inserted its latch, and the other caller, which
\* holds nothing, cannot enter the key's entry until the first returns true.
C14_Witness ==
    \E t \in Threads, u \in Threads :
        /\ u # t
        /\ Returning(t, "try_exclusive")
        /\ ret[t]
        /\ ~HoldsExclusive(t, key[t])
        /\ pc[u] = "idle"
        /\ \A k \in Keys : ~Holds(u, k)
        /\ ~SlotFree(key[t])
        /\ ~ENABLED TakeEntry(u, "try_exclusive", key[t])

\* Some call other than thread t's is in progress on key k.
OtherCallOn(t, k) ==
    \E u \in Threads \ {t} : pc[u] \notin {"idle", "fault"} /\ key[u] = k

\* C15: no caller acquires a lock on an entry that is being removed: from
\* the release of the latch through the is_locked test to the removal, the
\* releasing call holds the key's slot and no other call on the key is in
\* progress; the entry that is removed is unlocked and no other caller holds
\* the key, so an acquisition falls before the release or after the removal
\* and no lock is lost with the entry.
C15_NoAcquireDuringRemoval ==
    \A t \in Threads :
        pc[t] \in {"check", "remove"} =>
            /\ writer[ShardOf(key[t])] = t
            /\ ~OtherCallOn(t, key[t])
            /\ Present(key[t])
            /\ pc[t] = "remove" =>
                   /\ ~IsLocked(hashmap[key[t]])
                   /\ \A u \in Threads \ {t} : ~Holds(u, key[t])

\* The last release_shared of a key is about to remove the entry, and a
\* try_shared of the other caller on that key cannot start until it has.
C15_Witness ==
    \E t \in Threads, u \in Threads :
        /\ u # t
        /\ pc[t] = "remove"
        /\ op[t] = "release_shared"
        /\ pc[u] = "idle"
        /\ ~ENABLED TakeEntry(u, "try_shared", key[t])

-----------------------------------------------------------------------------
(* The table with each method executed as one atomic step on a map m.      *)

\* The latch method o acts on in map m: the entry's, or a fresh one.
AtomicLatch(m, k) == IF k \in DOMAIN m THEN m[k] ELSE DefaultLatch

\* The method panics: a release or a downgrade of a key that has no entry or
\* whose latch is not in the mode the method needs.
AtomicFaults(m, o, k) ==
    CASE o = "downgrade" -> ~(k \in DOMAIN m /\ LatchDowngradeOk(m[k]))
      [] o = "release_shared" -> ~(k \in DOMAIN m /\ LatchReleaseSharedOk(m[k]))
      [] o = "release_exclusive" ->
             ~(k \in DOMAIN m /\ LatchReleaseExclusiveOk(m[k]))
      [] OTHER -> FALSE

\* The boolean the method returns (FALSE stands for the unit of the others).
AtomicResult(m, o, k) ==
    CASE o = "try_shared" -> LatchTrySharedOk(AtomicLatch(m, k))
      [] o = "try_exclusive" -> LatchTryExclusiveOk(AtomicLatch(m, k))
      [] o = "try_upgrade" -> k \in DOMAIN m /\ LatchTryUpgradeOk(m[k])
      [] OTHER -> FALSE

\* The entry after a release: kept while locked, removed when unlocked.
AtomicReleased(m, k, l) == IF IsLocked(l) THEN MapPut(m, k, l) ELSE MapRemove(m, k)

\* The map the method leaves when it does not panic.
AtomicMap(m, o, k) ==
    CASE o = "try_shared" -> MapPut(m, k, LatchTryShared(AtomicLatch(m, k)))
      [] o = "try_exclusive" -> MapPut(m, k, LatchTryExclusive(AtomicLatch(m, k)))
      [] o = "try_upgrade" ->
             IF k \in DOMAIN m THEN MapPut(m, k, LatchTryUpgrade(m[k])) ELSE m
      [] o = "downgrade" -> MapPut(m, k, LatchDowngrade(m[k]))
      [] o = "release_shared" -> AtomicReleased(m, k, LatchReleaseShared(m[k]))
      [] o = "release_exclusive" ->
             AtomicReleased(m, k, LatchReleaseExclusive(m[k]))

\* The map as the atomic methods leave it: an entry whose latch a release
\* has unlocked and not yet removed is already gone.
AbsMapOf(m) == [x \in {y \in DOMAIN m : IsLocked(m[y])} |-> m[x]]

\* What the calls that hold a slot and have not yet acted on the latch are
\* going to read, in positions p, keys q and map m, is what the atomic
\* methods would read: an occupied entry or a Ref has a locked latch, a
\* vacant entry has none.
SeesAtomicState(p, q, m) ==
    \A t \in Threads :
        /\ p[t] \in {"occupied", "ref"} => q[t] \in DOMAIN m /\ IsLocked(m[q[t]])
        /\ p[t] = "vacant" => q[t] \notin DOMAIN m

\* The step in which the method of thread t takes effect: the operation on
\* the latch (or the panic instead of it), the slot being held; for a
\* downgrade of an absent key, the failed lookup.
TakesEffect(t) ==
    \/ pc[t] \in {"occupied", "vacant", "ref"}
    \/ pc[t] = "idle" /\ pc'[t] = "fault"

\* C16: the methods broken into their steps (take the slot through entry()
\* or, for downgrade, get(); look up or create; act on the latch; test
\* is_locked; remove; drop the slot) do only what the methods executed one
\* at a time, each as a single step, can do: every call has one step at
\* which it takes effect, there the map seen through AbsMapOf changes as the
\* atomic method changes it and the call's result or panic is the atomic
\* method's, every other step leaves that map and the result alone, and when
\* no call is in progress the map is that map.
C16_Linearizable ==
    [][\A t \in Threads :
          Acts(t) =>
              LET m == AbsMapOf(hashmap)
                  o == op'[t]
                  k == key'[t]
              IN  /\ SeesAtomicState(pc', key', hashmap')
                  /\ IF TakesEffect(t)
                     THEN IF AtomicFaults(m, o, k)
                          THEN /\ pc'[t] = "fault"
                               /\ AbsMapOf(hashmap') = m
                          ELSE /\ pc'[t] \in {"drop", "check"}
                               /\ ret'[t] = AtomicResult(m, o, k)
                               /\ AbsMapOf(hashmap') = AtomicMap(m, o, k)
                     ELSE /\ pc'[t] # "fault"
                          /\ AbsMapOf(hashmap') = m
                          /\ pc'[t] # "idle" /\ pc[t] # "idle" => ret'[t] = ret[t]
                  /\ (\A u \in Threads : pc'[u] \in {"idle", "fault"})
                     => hashmap' = AbsMapOf(hashmap')]_vars

\* A release has unlocked a latch and not yet removed the entry, so the map
\* differs from the atomic one, while a call on a key of another shard is
\* about to act on its latch.
C16_Witness ==
    \E t \in Threads, u \in Threads :
        /\ pc[t] \in {"check", "remove"}
        /\ hashmap # AbsMapOf(hashmap)
        /\ pc[u] \in {"occupied", "ref"}

-----------------------------------------------------------------------------
\* A call of an idle caller on key k need not wait: entry(k) can be taken now.
CanEnter(k) ==
    \A u \in Threads : pc[u] = "idle" => ENABLED TakeEntry(u, "try_exclusive", k)

\* C17 as stated: a call in progress on one key never makes a call on a
\* different key wait; whenever no call on key k is in progress, a call on k
\* can take its slot at once.
C17_NoBlockingAcrossKeys ==
    \A k \in Keys : Quiet(k) => CanEnter(k)

\* C17, amended: a call in progress on one key never makes a call on a key
\* of another shard wait: whenever no call is in progress on any key of the
\* shard of k, a call on k can take its slot at once; the exclusion is that
\* of the key's shard, not of the whole map, and it ends with the call.
C17_NoBlockingAcrossShards ==
    \A k \in Keys :
        (\A t \in Threads :
             pc[t] \in {"idle", "fault"} \/ ShardOf(key[t]) # ShardOf(k))
        => CanEnter(k)

\* Two calls hold the slots of their keys at the same time, the keys being
\* in different shards: neither call has waited for the other.
C17_Witness ==
    \E t \in Threads, u \in Threads :
        /\ u # t
        /\ InEntry(t, key[t])
        /\ InEntry(u, key[u])
        /\ key[t] # key[u]
        /\ ShardOf(key[t]) # ShardOf(key[u])
        /\ writer[ShardOf(key[t])] = t
        /\ writer[ShardOf(key[u])] = u

-----------------------------------------------------------------------------
(* Fair scheduling: a thread inside a method is scheduled again, so the    *)
(* next step of its method is taken if it stays possible.  Nothing obliges *)
(* a caller to call.                                                       *)

\* The next step of the method thread t is in, whatever it is.
Proceed(t) ==
    \/ TrySharedOccupied(t)
    \/ TrySharedVacant(t)
    \/ TryExclusiveOccupied(t)
    \/ TryExclusiveVacant(t)
    \/ TryUpgradeOccupied(t)
    \/ TryUpgradeVacant(t)
    \/ Downgrade(t)
    \/ ReleaseSharedOccupied(t)
    \/ ReleaseExclusiveOccupied(t)
    \/ IsLockedCheck(t)
    \/ RemoveAny(t)
    \/ DropAny(t)
    \/ ReleaseVacant(t)
    \/ LatchPanic(t)

SpecAnyFair == Init /\ [][NextAny]_vars /\ \A t \in Threads : WF_vars(Proceed(t))

\* Thread t is inside a method: it has the slot and has not returned.
InCall(t) == pc[t] \notin {"idle", "fault"}

\* C18: no method waits for a lock: whatever is held on whatever key, by
\* whomever, a call that is in progress can always take its next step, and
\* under fair scheduling it returns or panics; an attempt on a key held in a
\* conflicting mode is one of these calls and ends with false.
C18_NeverWaits ==
    /\ [](\A t \in Threads : InCall(t) => ENABLED Proceed(t))
    /\ \A t \in Threads : InCall(t) ~> ~InCall(t)

\* A try_exclusive has found the key held exclusively, the holder being idle
\* and free to keep the key for as long as it likes; the attempt can go on.
C18_Witness ==
    \E t \in Threads :
        /\ pc[t] = "occupied"
        /\ op[t] = "try_exclusive"
        /\ hashmap[key[t]] = Exclusive
        /\ \A u \in Threads \ {t} : pc[u] = "idle"
        /\ ENABLED TryExclusiveOccupied(t)

-----------------------------------------------------------------------------
(* The threads of stress_test_lock_table_with_state.  Each keeps two maps  *)
(* used as sets, held_shared_locks and held_exclusive_locks: a key is in   *)
(* the shared set (1) or not (0), however often try_shared has succeeded.  *)

\* The operations the test draws from: op in 0..5, no downgrade.
StressOps == Ops \ {"downgrade"}

\* The test calls a release only for a key it removes from the set, and
\* try_upgrade only for a key of its shared set; the growth of shared_count
\* is capped.
StressPermitted(t, o, k) ==
    CASE o = "try_shared" -> Present(k) => hashmap[k].shared_count < MaxCount
      [] o = "try_exclusive" -> TRUE
      [] o = "try_upgrade" -> held_shared_locks[t][k] = 1
      [] o = "release_shared" -> held_shared_locks[t][k] = 1
      [] o = "release_exclusive" -> k \in held_exclusive_locks[t]

\* Whether the key is in the thread's shared set after the method returned.
StressSharedAfter(t) ==
    CASE op[t] = "try_shared" /\ ret[t] -> 1
      [] op[t] = "try_upgrade" /\ ret[t] -> 0
      [] op[t] = "release_shared" -> 0
      [] OTHER -> held_shared_locks[t][key[t]]

StressRecord(t) ==
    /\ held_shared_locks' =
           [held_shared_locks EXCEPT ![t][key[t]] = StressSharedAfter(t)]
    /\ held_exclusive_locks' =
           [held_exclusive_locks EXCEPT ![t] = ExclusiveAfter(t)]

StressCall(t) ==
    \E o \in StressOps, k \in Keys :
        /\ StressPermitted(t, o, k)
        /\ TakeEntry(t, o, k)

StressRemove(t) == RemoveEntry(t) /\ StressRecord(t)

StressDrop(t) == DropGuard(t) /\ StressRecord(t)

NextStress ==
    \E t \in Threads :
        \/ StressCall(t)
        \/ TrySharedOccupied(t)
        \/ TrySharedVacant(t)
        \/ TryExclusiveOccupied(t)
        \/ TryExclusiveVacant(t)
        \/ TryUpgradeOccupied(t)
        \/ ReleaseSharedOccupied(t)
        \/ ReleaseExclusiveOccupied(t)
        \/ IsLockedCheck(t)
        \/ StressRemove(t)
        \/ StressDrop(t)

SpecStress == Init /\ [][NextStress]_vars

\* C19: under the stress test's protocol no call ever panics: no release
\* finds its key absent, no release finds the latch in the wrong mode, and
\* (what would end the test as well) no try_upgrade of a key of the shared
\* set finds the key absent.
C19_StressNeverFaults ==
    \A t \in Threads :
        /\ pc[t] # "fault"
        /\ ~MisuseAbsent(t)
        /\ ~MisuseLatch(t)
        /\ pc[t] = "vacant" => op[t] \in {"try_shared", "try_exclusive"}
        /\ pc[t] = "occupied" => Present(key[t])

\* A thread took the same key shared twice and has it in its set once: its
\* release_shared is under way on a latch that counts more holds than all
\* the sets together.
C19_Witness ==
    \E t \in Threads :
        /\ pc[t] = "occupied"
        /\ op[t] = "release_shared"
        /\ Present(key[t])
        /\ hashmap[key[t]].shared_count > SharedHeld(key[t])

-----------------------------------------------------------------------------
(* Outstanding holds: what the callers hold by the calls made so far, a    *)
(* call counting from the step at which it has acted on the latch.         *)

\* Thread t has acted on the latch of key k and has not yet returned.
Acted(t, k) == key[t] = k /\ pc[t] \in {"drop", "check", "remove"}

\* Successful try_shared calls plus downgrades, minus release_shared calls
\* and successful try_upgrade calls, of thread t on key k.
OutstandingShared(t, k) ==
    IF Acted(t, k) THEN SharedAfter(t) ELSE held_shared_locks[t][k]

OutstandingExclusive(t, k) ==
    IF Acted(t, k) THEN k \in ExclusiveAfter(t) ELSE k \in held_exclusive_locks[t]

RECURSIVE OutstandingSharedUpTo(_, _)
OutstandingSharedUpTo(n, k) ==
    IF n = 0 THEN 0 ELSE OutstandingShared(n, k) + OutstandingSharedUpTo(n - 1, k)

\* C20: for callers that release, upgrade and downgrade only what they
\* hold, in every reachable state and for every key, the latch's
\* shared_count (0 without an entry) is the number of outstanding shared
\* holds, exclusive_held is true exactly when there is one outstanding
\* exclusive hold, and at most one caller holds the key exclusively.
C20_HolderAccounting ==
    \A k \in Keys :
        LET lock == AtomicLatch(hashmap, k)
            holders == {t \in Threads : OutstandingExclusive(t, k)}
        IN  /\ lock.shared_count = OutstandingSharedUpTo(NumThreads, k)
            /\ lock.exclusive_held <=> Cardinality(holders) = 1
            /\ Cardinality(holders) <= 1

\* A try_shared is returning true on a key another caller holds shared: the
\* latch counts two holds, the callers' own counts only one so far.
C20_Witness ==
    \E t \in Threads :
        /\ Returning(t, "try_shared")
        /\ ret[t]
        /\ Present(key[t])
        /\ hashmap[key[t]] = Shared(2)
        /\ SharedHeld(key[t]) = 1
        /\ OutstandingSharedUpTo(NumThreads, key[t]) = 2

=============================================================================
